---- MODULE Spec2Model ----
(***************************************************************************)
(* Model of the autonomous hiring agent: the agent_runner scheduling       *)
(* wrapper (llm_func.py), the intake pass main() (main.py), the resume     *)
(* gate extract_llm / validate_resume (llm_func.py), the mailbox helpers   *)
(* (gmail_func.py) and the two Google-Sheets sinks (llm_func.py).          *)
(*                                                                         *)
(* Six specifications share the state:                                     *)
(*   Spec      - the program as shipped: agent_runner wrapping main().     *)
(*   FairSpec  - Spec under the assumption that every call ends.           *)
(*   IntSpec   - Spec plus an operator interrupt (Ctrl-C) at any point.     *)
(*   SchedSpec - agent_runner wrapping an arbitrary function that may      *)
(*               return or raise (the decorator is generic in func).       *)
(*   SinkSpec  - save_to_sheets / save_rejected_to_sheets driven directly  *)
(*               with arbitrary arguments and store faults.                *)
(*   RowSpec   - one save_to_sheets call with any skills list.             *)
(***************************************************************************)
EXTENDS Integers, Sequences, FiniteSets, TLC

\* ---------------------------------------------------------------- bounds
\* MaxMsgs: messages the mailbox search returns over a whole run.
\* MaxCycles / SchedCycles: scheduler cycles explored under Spec / SchedSpec.
\* FairCycles: scheduler cycles explored under FairSpec.
\* MaxCalls: sink calls explored under SinkSpec.  MaxSkills: skills per record.
\* MaxJoinLen: skills per record under RowSpec.
MaxMsgs == 3
MaxCycles == 2
FairCycles == 1
SchedCycles == 4
MaxCalls == 2
MaxSkills == 2
MaxJoinLen == 3

\* ------------------------------------------------------ program constants
MaxAttempts == 3
RetryDelay == 10
CycleSleep == 3600

AcceptedStore == "candidates"
\* (faulty variant: rejections are written to the candidates sheet)
RejectedStore_Candidates == "candidates"
RejectedStore == "rejected_applications"
DefaultCandidateStore == "intern_can"
\* the sheet names the startup banner of __main__ logs
BannerAcceptedStore == "intern_can"
BannerRejectedStore == "rejected_applications"
StoreNames == {AcceptedStore, RejectedStore, DefaultCandidateStore}

CandidateHeader ==
    <<"Name", "Email", "Phone", "Skills", "Experience", "Status", "Summary", "questions">>
RejectedHeader == <<"Timestamp", "Sender", "Document Type", "Rejection Reason">>

RejectDocType == "non-resume"
RejectReason == "Failed resume validation check"

\* ------------------------------------------------------------ small sets
Confidence == {"high", "medium", "low"}
DocTypeFor(is_resume) == IF is_resume THEN "resume" ELSE "cover_letter"
StatusTags == {"New", "Old"}
SkillNames == {"Python", "SQL"}
\* Attachment parts read_email can find in a message: none, or a first one
\* followed by another (save_pdf looks at the first only, so a message with a
\* single attachment behaves as one with two).
AttachCounts == {0, 2}
StoreFaults == {"none", "open", "create", "share", "append_header", "append_row"}

\* What page.extract_text() yields for the pages of a readable PDF.
PdfPages == {<<"John  Doe", " Python SQL ">>, <<"Error budget", "report ">>}

None == [absent |-> TRUE]

\* ------------------------------------------------------------- utilities
\* str.startswith (faulty variant: the whole string is compared)
StartsWith_WholeString(s, p) == s = p
StartsWith(s, p) == Len(s) >= Len(p) /\ SubSeq(s, 1, Len(p)) = p

RECURSIVE SeqsUpTo(_, _)
SeqsUpTo(S, n) ==
    IF n = 0 THEN {<<>>}
    ELSE LET shorter == SeqsUpTo(S, n - 1)
         IN  shorter \cup {Append(q, x) : q \in {r \in shorter : Len(r) = n - 1}, x \in S}

SkillLists == SeqsUpTo(SkillNames, MaxSkills)
JoinLists == SeqsUpTo(SkillNames \cup {"Go"}, MaxJoinLen)

\* ", ".join(skills)
\* (faulty variant: the separator is a bare comma)
RECURSIVE JoinSkills_BareComma(_)
JoinSkills_BareComma(skills) ==
    IF Len(skills) = 0 THEN ""
    ELSE IF Len(skills) = 1 THEN skills[1]
    ELSE skills[1] \o "," \o JoinSkills_BareComma(Tail(skills))
RECURSIVE JoinSkills(_)
JoinSkills(skills) ==
    IF Len(skills) = 0 THEN ""
    ELSE IF Len(skills) = 1 THEN skills[1]
    ELSE skills[1] \o ", " \o JoinSkills(Tail(skills))

\* ---------------------------------------------------------------- mailbox
MsgId(i) == "m" \o ToString(i)
SenderOf(id) == id \o "@mail"
BodyOf(id) == "body of " \o id
FileName(id, k) == id \o "_att" \o ToString(k) \o ".pdf"

\* One entry of read_email's result.
EmailData(id, nAtt) ==
    [id |-> id, sender |-> SenderOf(id), body |-> BodyOf(id),
     attachments |-> [k \in 1..nAtt |-> FileName(id, k)]]

\* ------------------------------------------------------------------ sinks
AbsentSheet == [exists |-> FALSE, shared |-> FALSE, rows |-> <<>>]

ClientCreate(sh, name) ==
    [sh EXCEPT ![name] = [exists |-> TRUE, shared |-> FALSE, rows |-> <<>>]]
Share(sh, name) == [sh EXCEPT ![name].shared = TRUE]
\* (faulty variant of append_row: the row is inserted at the top of the sheet)
AppendRow_InsertFirst(sh, name, row) == [sh EXCEPT ![name].rows = <<row>> \o @]
AppendRow(sh, name, row) == [sh EXCEPT ![name].rows = Append(@, row)]

Raised(sh) == [sheets |-> sh, raised |-> TRUE]
Returned(sh) == [sheets |-> sh, raised |-> FALSE]

\* The Interns values the reasoning collaborator can return: any skills list
\* in skillSet, any status the schema's Literal['New', 'Old'] admits.
Interns(id, skillSet) ==
    {[name |-> "cand " \o id, email |-> "N/A", phone |-> "N/A", skills |-> sk,
      exp |-> "0 years", status |-> st, summary |-> "s", question |-> "q"] :
        sk \in skillSet, st \in StatusTags}

ModelDump(d) == d

CandidateRow(data) ==
    <<data.name, data.email, data.phone, JoinSkills(data.skills), data.exp,
      data.status, data.summary, data.question>>

RejectedRow(timestamp, email_sender, document_type, reason) ==
    <<timestamp, email_sender, document_type, reason>>

\* Faulty variant of save_to_sheets: a bare `except` that swallows store errors.
SaveToSheets_SwallowsErrors(sh, data, file_name, fail) ==
    LET row == CandidateRow(data) IN
    IF sh[file_name].exists
    THEN IF fail \in {"open", "append_row"}
         THEN Returned(sh)
         ELSE Returned(AppendRow(sh, file_name, row))
    ELSE IF fail \in {"open", "create"} THEN Returned(sh)
    ELSE IF fail = "share" THEN Returned(ClientCreate(sh, file_name))
    ELSE IF fail = "append_header"
         THEN Returned(Share(ClientCreate(sh, file_name), file_name))
    ELSE IF fail = "append_row"
         THEN Returned(AppendRow(Share(ClientCreate(sh, file_name), file_name),
                                 file_name, CandidateHeader))
    ELSE Returned(AppendRow(AppendRow(Share(ClientCreate(sh, file_name), file_name),
                                      file_name, CandidateHeader), file_name, row))

\* Faulty variant of save_to_sheets: the header is written on every call.
SaveToSheets_AlwaysHeader(sh, data, file_name, fail) ==
    LET row == CandidateRow(data) IN
    IF fail # "none" THEN Raised(sh)
    ELSE Returned(AppendRow(AppendRow(Share(
             IF sh[file_name].exists THEN sh ELSE ClientCreate(sh, file_name),
             file_name), file_name, CandidateHeader), file_name, row))

\* save_to_sheets: open the sheet and append the row; on SpreadsheetNotFound
\* create it, share it, write the header, then the row.  fail names the store
\* call that raises an error other than SpreadsheetNotFound; a fault on a call
\* the path does not make is no fault.  Only SpreadsheetNotFound is caught.
SaveToSheets(sh, data, file_name, fail) ==
    LET row == CandidateRow(data) IN
    IF fail = "open" THEN Raised(sh)
    ELSE IF sh[file_name].exists
    THEN IF fail = "append_row"
         THEN Raised(sh)
         ELSE Returned(AppendRow(sh, file_name, row))
    ELSE IF fail = "create" THEN Raised(sh)
    ELSE IF fail = "share" THEN Raised(ClientCreate(sh, file_name))
    ELSE IF fail = "append_header"
         THEN Raised(Share(ClientCreate(sh, file_name), file_name))
    ELSE IF fail = "append_row"
         THEN Raised(AppendRow(Share(ClientCreate(sh, file_name), file_name),
                               file_name, CandidateHeader))
    ELSE Returned(AppendRow(AppendRow(Share(ClientCreate(sh, file_name), file_name),
                                      file_name, CandidateHeader), file_name, row))

\* save_rejected_to_sheets: the same shape, with the rejection header and row.
SaveRejectedToSheets(sh, timestamp, email_sender, document_type, reason, file_name, fail) ==
    LET row == RejectedRow(timestamp, email_sender, document_type, reason) IN
    IF fail = "open" THEN Raised(sh)
    ELSE IF sh[file_name].exists
    THEN IF fail = "append_row"
         THEN Raised(sh)
         ELSE Returned(AppendRow(sh, file_name, row))
    ELSE IF fail = "create" THEN Raised(sh)
    ELSE IF fail = "share" THEN Raised(ClientCreate(sh, file_name))
    ELSE IF fail = "append_header"
         THEN Raised(Share(ClientCreate(sh, file_name), file_name))
    ELSE IF fail = "append_row"
         THEN Raised(AppendRow(Share(ClientCreate(sh, file_name), file_name),
                               file_name, RejectedHeader))
    ELSE Returned(AppendRow(AppendRow(Share(ClientCreate(sh, file_name), file_name),
                                      file_name, RejectedHeader), file_name, row))

\* Data rows of a sheet: every row that is not one of the two headers.
DataRows(sheet) == SelectSeq(sheet.rows, LAMBDA r : r \notin {CandidateHeader, RejectedHeader})
DataCount(sheet) == Len(DataRows(sheet))
\* ------------------------------------------------------------------ state
VARIABLES
    \* agent_runner.wrapper
    wpc,        \* position in the wrapper: "loop", "call", "in_func", "cycle_end"
    cycle,      \* iterations of `while True` started
    attempt,    \* loop variable of `for attempt in range(1, 4)`
    success,    \* the wrapper's success flag
    results,    \* outcome of each attempt of this cycle: "ok" / "raise"
    waits,      \* time.sleep durations of this cycle, in order
    log,        \* scheduler-level error lines of this cycle
    clock,      \* seconds slept so far
    \* main
    mpc,        \* position in main()
    discovery,  \* how the search call of this pass ended: "none", "ok", "failed"
    discovered, \* messages returned by search so far in the run
    msg_ids, content, idx,
    path, body, pdf_txt, validation, data,
    spy,        \* classifier / extractor chain invocations for the current
                \* message, and whether the chain raised
    fault,      \* the stage of the current message that failed, or "none"
    sinkCall,   \* the sink call made for the current message: function, whether
                \* it raised, the stores it changed
    track,      \* per message of this pass: state and the data rows it added
    \* the Google Sheets account
    sheets,
    \* calls made directly on the sinks (SinkSpec)
    sinkLog

schedVars == <<wpc, cycle, attempt, success, results, waits, log, clock>>
mainVars == <<mpc, discovery, discovered, msg_ids, content, idx, path, body, pdf_txt,
              validation, data, spy, fault, sinkCall, track>>
vars == <<schedVars, mainVars, sheets, sinkLog>>

NoSpy == [classify |-> 0, extract |-> 0, classifyRaised |-> FALSE, extractRaised |-> FALSE]

Init ==
    /\ wpc = "loop" /\ cycle = 0 /\ attempt = 0 /\ success = FALSE
    /\ results = <<>> /\ waits = <<>> /\ log = {} /\ clock = 0
    /\ mpc = "idle" /\ discovery = "none" /\ discovered = 0
    /\ msg_ids = <<>> /\ content = <<>> /\ idx = 0
    /\ path = None /\ body = None /\ pdf_txt = None
    /\ validation = None /\ data = None
    /\ spy = NoSpy /\ fault = "none" /\ sinkCall = None /\ track = <<>>
    /\ sheets = [n \in StoreNames |-> AbsentSheet]
    /\ sinkLog = <<>>
\* ------------------------------------------------- agent_runner.wrapper
\* `if attempt < 3` guarding time.sleep(10)
\* (faulty variant: the delay is taken after every failed attempt)
DelayAfterFailure_Always(a) == TRUE
DelayAfterFailure(a) == a < MaxAttempts

\* `for attempt in range(1, 4)`: is there another iteration after attempt a
MoreAttempts(a) == a < MaxAttempts

\* `except Exception` of the wrapper: does it catch what func raised
\* (faulty variant: no handler, the exception leaves the wrapper)
WrapperCatches_Nothing(exc) == FALSE
WrapperCatches(exc) == exc = "Exception"

\* top of `while True`: a new cycle begins
StartCycle(bound) ==
    /\ wpc = "loop"
    /\ cycle < bound
    /\ cycle' = cycle + 1
    /\ success' = FALSE
    /\ attempt' = 1
    /\ results' = <<>> /\ waits' = <<>> /\ log' = {}
    /\ wpc' = "call"
    /\ UNCHANGED <<clock, mainVars, sheets, sinkLog>>

\* func returned: success = True; break
OnReturn ==
    /\ success' = TRUE
    /\ results' = Append(results, "ok")
    /\ wpc' = "cycle_end"
    /\ UNCHANGED <<cycle, attempt, waits, log, clock>>

\* func raised exc: log the attempt, sleep 10 s when the guard allows it, and
\* move to the next iteration of the for loop or fall out of it
OnRaise(exc) ==
    IF WrapperCatches(exc)
    THEN /\ results' = Append(results, "raise")
         /\ IF DelayAfterFailure(attempt)
            THEN waits' = Append(waits, RetryDelay) /\ clock' = clock + RetryDelay
            ELSE UNCHANGED <<waits, clock>>
         /\ IF MoreAttempts(attempt)
            THEN attempt' = attempt + 1 /\ wpc' = "call"
            ELSE attempt' = attempt /\ wpc' = "cycle_end"
         /\ UNCHANGED <<cycle, success, log>>
    ELSE /\ wpc' = "raised"
         /\ results' = Append(results, "raise")
         /\ UNCHANGED <<cycle, attempt, success, waits, log, clock>>

\* after the for loop: log exhaustion, sleep one hour, loop
EndCycle ==
    /\ wpc = "cycle_end"
    /\ log' = IF ~success THEN log \cup {"All 3 attempts failed"} ELSE log
    /\ waits' = Append(waits, CycleSleep)
    /\ clock' = clock + CycleSleep
    /\ wpc' = "loop"
    /\ UNCHANGED <<cycle, attempt, success, results, mainVars, sheets, sinkLog>>

\* SchedSpec: the wrapped function is arbitrary
CallFunc ==
    /\ wpc = "call"
    /\ wpc' = "in_func"
    /\ UNCHANGED <<cycle, attempt, success, results, waits, log, clock,
                   mainVars, sheets, sinkLog>>

FuncReturns ==
    /\ wpc = "in_func"
    /\ OnReturn
    /\ UNCHANGED <<mainVars, sheets, sinkLog>>

FuncRaises ==
    /\ wpc = "in_func"
    /\ OnRaise("Exception")
    /\ UNCHANGED <<mainVars, sheets, sinkLog>>

SchedNext ==
    \/ StartCycle(SchedCycles)
    \/ CallFunc
    \/ FuncReturns
    \/ FuncRaises
    \/ EndCycle

SchedSpec == Init /\ [][SchedNext]_vars
\* ------------------------------------------------------------ gmail_func
\* search_gmail: the ids found, or [] when anything in the search raises
SearchGmail(searchOk, n) ==
    [raised |-> FALSE, ids |-> IF searchOk THEN [i \in 1..n |-> MsgId(i)] ELSE <<>>]

\* read_email: one entry per message that could be read, in msg_ids order; a
\* message whose read raises is logged and left out
\* (faulty variant: each entry is inserted at the front of content)
RECURSIVE ReadEmail_NewestFirst(_, _, _)
ReadEmail_NewestFirst(ids, readable, nAtt) ==
    IF ids = <<>> THEN <<>>
    ELSE LET rest == ReadEmail_NewestFirst(Tail(ids), readable, nAtt)
         IN  IF Head(ids) \in readable
             THEN rest \o <<EmailData(Head(ids), nAtt[Head(ids)])>>
             ELSE rest
RECURSIVE ReadEmail(_, _, _)
ReadEmail(ids, readable, nAtt) ==
    IF ids = <<>> THEN <<>>
    ELSE LET rest == ReadEmail(Tail(ids), readable, nAtt)
         IN  IF Head(ids) \in readable
             THEN <<EmailData(Head(ids), nAtt[Head(ids)])>> \o rest
             ELSE rest

\* save_pdf: first attachment of the first entry of contents
\* (faulty variant: the last attachment is fetched)
SavePdf_LastAttachment(contents, downloadOk) ==
    LET c == contents[1] IN
    IF ~downloadOk \/ c.attachments = <<>> THEN [raised |-> TRUE]
    ELSE [raised |-> FALSE, msg |-> c.id,
          path |-> c.attachments[Len(c.attachments)], body |-> c.body]
SavePdf(contents, downloadOk) ==
    IF contents = <<>> THEN [raised |-> TRUE]
    ELSE LET c == contents[1] IN
         IF c.attachments = <<>> THEN [raised |-> TRUE]
         ELSE IF ~downloadOk THEN [raised |-> TRUE]
         ELSE [raised |-> FALSE, msg |-> c.id, path |-> c.attachments[1], body |-> c.body]

\* full_txt += page.extract_text() + "\n", over the pages in order
RECURSIVE ConcatPages(_)
ConcatPages(pages) ==
    IF pages = <<>> THEN "" ELSE Head(pages) \o "\n" \o ConcatPages(Tail(pages))

\* " ".join(full_txt.split()): the words of s from position i on, appended to
\* acc with single spaces between them
Whitespace == {" ", "\n"}
RECURSIVE JoinWords(_, _, _, _)
JoinWords(s, i, acc, gap) ==
    IF i > Len(s) THEN acc
    ELSE IF SubSeq(s, i, i) \in Whitespace THEN JoinWords(s, i + 1, acc, acc # "")
    ELSE JoinWords(s, i + 1, acc \o (IF gap THEN " " ELSE "") \o SubSeq(s, i, i), FALSE)
NormalizeWs(s) == JoinWords(s, 1, "", FALSE)

\* extract_text_from_pdf: the whitespace-normalised text of the pages, or an
\* "Error..." string when the file is missing (FileNotFoundError) or cannot be
\* read (any other Exception); both handlers return
\* (faulty variant: no try/except, the reader's exception leaves the function)
ExtractTextFromPdf_NoHandlers(pdf_path, outcome, pages) ==
    IF outcome # "ok" THEN [raised |-> TRUE]
    ELSE [raised |-> FALSE, text |-> NormalizeWs(ConcatPages(pages))]
ExtractTextFromPdf(pdf_path, outcome, pages) ==
    IF outcome = "missing"
    THEN [raised |-> FALSE, text |-> "Error: PDF file not found at " \o pdf_path]
    ELSE IF outcome = "unreadable"
    THEN [raised |-> FALSE, text |-> "Error reading PDF: bad xref"]
    ELSE [raised |-> FALSE, text |-> NormalizeWs(ConcatPages(pages))]

\* ---------------------------------------------------------------- llm_func
\* A ResumeValidation the classifier chain can return: the document type it
\* names goes with its verdict
ValidationResults ==
    {[is_resume |-> b, confidence |-> c, document_type |-> DocTypeFor(b)] :
        b \in BOOLEAN, c \in Confidence}
LlmError == [error |-> TRUE]

\* validate_resume: the classifier's answer, or the safe default when the
\* chain raises (faulty variant: the default lets the document through)
ValidateResume_Propagates(llmOut) ==
    IF llmOut = LlmError
    THEN [is_resume |-> TRUE, confidence |-> "high", document_type |-> "unknown"]
    ELSE llmOut
ValidateResume(llmOut) ==
    IF llmOut = LlmError
    THEN [is_resume |-> FALSE, confidence |-> "low", document_type |-> "unknown"]
    ELSE llmOut

\* extract_llm, step 1: the two early returns in front of the Interns chain
\* (faulty variant: the confidence check is missing)
PassesValidation_IgnoresConfidence(v) == v.is_resume
PassesValidation(v) ==
    IF ~v.is_resume THEN FALSE
    ELSE IF v.confidence = "low" THEN FALSE
    ELSE TRUE

\* extract_llm, step 2: the Interns chain; None when it raises
\* (faulty variant: no try/except, the error leaves extract_llm)
StructureResult_Propagates(llmOut) == llmOut
StructureResult(llmOut) == IF llmOut = LlmError THEN None ELSE llmOut

\* ------------------------------------------------------------------- main
PipelineSkills == {<<"Python", "SQL">>}
Timestamp == "t" \o ToString(clock)
email_data == content[idx]

Terminal == {"Done", "Failed"}
NewTrack == [state |-> "Pending", acc |-> 0, rej |-> 0]

SetState(st) == track' = [track EXCEPT ![idx].state = st] /\ fault' = fault
Fail(stage, st) == track' = [track EXCEPT ![idx].state = st] /\ fault' = stage

\* the per-message `except Exception: ... continue`
\* (faulty variant: the handler re-raises, ending the pass)
MessageBoundary_Reraises(st) == st
MessageBoundary(st) == IF st = "Raised" THEN "Failed" ELSE st

\* agent_runner calls main(): a new pass begins
CallMain ==
    /\ wpc = "call"
    /\ wpc' = "in_func"
    /\ mpc' = "search"
    /\ discovery' = "none"
    /\ msg_ids' = <<>> /\ content' = <<>> /\ idx' = 0 /\ track' = <<>>
    /\ path' = None /\ body' = None /\ pdf_txt' = None
    /\ validation' = None /\ data' = None /\ spy' = NoSpy /\ fault' = "none"
    /\ sinkCall' = None
    /\ UNCHANGED <<cycle, attempt, success, results, waits, log, clock,
                   discovered, sheets, sinkLog>>

\* msg_ids = search_gmail(); if not msg_ids: return
Search ==
    /\ wpc = "in_func" /\ mpc = "search"
    /\ \E searchOk \in BOOLEAN, n \in 0..(MaxMsgs - discovered) :
          LET r == SearchGmail(searchOk, n) IN
          /\ searchOk \/ n = 0
          /\ discovery' = IF searchOk THEN "ok" ELSE "failed"
          /\ msg_ids' = r.ids
          /\ discovered' = discovered + Len(r.ids)
          /\ mpc' = IF r.raised THEN "raise"
                    ELSE IF r.ids = <<>> THEN "return" ELSE "read"
    /\ UNCHANGED <<schedVars, content, idx, path, body, pdf_txt, validation, data,
                   spy, fault, sinkCall, track, sheets, sinkLog>>

\* content = read_email(msg_ids); if not content: return
Read ==
    /\ wpc = "in_func" /\ mpc = "read"
    /\ \E readable \in SUBSET {msg_ids[i] : i \in 1..Len(msg_ids)},
          nAtt \in [{msg_ids[i] : i \in 1..Len(msg_ids)} -> AttachCounts] :
          /\ \A id \in DOMAIN nAtt : id \notin readable => nAtt[id] = 0
          /\ content' = ReadEmail(msg_ids, readable, nAtt)
          /\ track' = [i \in 1..Len(content') |-> NewTrack]
          /\ mpc' = IF content' = <<>> THEN "return" ELSE "loop"
    /\ UNCHANGED <<schedVars, discovery, discovered, msg_ids, idx, path, body, pdf_txt,
                   validation, data, spy, fault, sinkCall, sheets, sinkLog>>

\* `for email_data in content`: the next message, or the end of the pass;
\* a message without attachments is skipped
\* (faulty variant: an index-driven loop whose `continue` for a message without
\* attachments skips the increment)
LoopNext_NoAdvance ==
    /\ wpc = "in_func" /\ mpc = "loop"
    /\ IF idx = Len(content)
       THEN /\ mpc' = "return"
            /\ UNCHANGED <<idx, track, fault, path, body, pdf_txt, validation, data,
                           spy, sinkCall>>
       ELSE IF content[idx + 1].attachments = <<>>
       THEN /\ mpc' = "loop"
            /\ UNCHANGED <<idx, track, fault, path, body, pdf_txt, validation, data,
                           spy, sinkCall>>
       ELSE /\ idx' = idx + 1
            /\ track' = [track EXCEPT ![idx + 1].state = "Fetched"]
            /\ fault' = "none"
            /\ mpc' = "download"
            /\ path' = None /\ body' = None /\ pdf_txt' = None
            /\ validation' = None /\ data' = None /\ spy' = NoSpy /\ sinkCall' = None
    /\ UNCHANGED <<schedVars, discovery, discovered, msg_ids, content, sheets, sinkLog>>
LoopNext ==
    /\ wpc = "in_func" /\ mpc = "loop"
    /\ IF idx = Len(content)
       THEN /\ mpc' = "return"
            /\ UNCHANGED <<idx, track, fault, path, body, pdf_txt, validation, data,
                           spy, sinkCall>>
       ELSE /\ idx' = idx + 1
            /\ IF content[idx + 1].attachments = <<>>
               THEN /\ track' = [track EXCEPT ![idx + 1].state = "Failed"]
                    /\ fault' = "no_attachment"
                    /\ mpc' = "loop"
               ELSE /\ track' = [track EXCEPT ![idx + 1].state = "Fetched"]
                    /\ fault' = "none"
                    /\ mpc' = "download"
            /\ path' = None /\ body' = None /\ pdf_txt' = None
            /\ validation' = None /\ data' = None /\ spy' = NoSpy /\ sinkCall' = None
    /\ UNCHANGED <<schedVars, discovery, discovered, msg_ids, content, sheets, sinkLog>>

\* path, body = save_pdf([email_data]); a raise is logged and the message skipped
Download ==
    /\ wpc = "in_func" /\ mpc = "download"
    /\ \E downloadOk \in BOOLEAN :
          LET r == SavePdf(<<email_data>>, downloadOk) IN
          IF r.raised
          THEN /\ Fail("download", "Failed")
               /\ mpc' = "loop"
               /\ UNCHANGED <<path, body>>
          ELSE /\ path' = [msg |-> r.msg, file |-> r.path]
               /\ body' = r.body
               /\ mpc' = "extract"
               /\ UNCHANGED <<track, fault>>
    /\ UNCHANGED <<schedVars, discovery, discovered, msg_ids, content, idx, pdf_txt,
                   validation, data, spy, sinkCall, sheets, sinkLog>>

\* pdf_txt = extract_text_from_pdf(path); if pdf_txt.startswith("Error"): continue
\* (an exception leaving extract_text_from_pdf would reach the per-message handler)
ExtractText ==
    /\ wpc = "in_func" /\ mpc = "extract"
    /\ \E outcome \in {"ok", "missing", "unreadable"}, pages \in PdfPages \cup {<<>>} :
          LET r == ExtractTextFromPdf(path.file, outcome, pages) IN
          /\ outcome = "ok" <=> pages # <<>>
          /\ IF r.raised
             THEN /\ Fail("extract_raised", MessageBoundary("Raised"))
                  /\ pdf_txt' = pdf_txt
                  /\ mpc' = "loop"
             ELSE /\ pdf_txt' = r.text
                  /\ IF StartsWith(r.text, "Error")
                     THEN Fail("extract", "Failed") /\ mpc' = "loop"
                     ELSE SetState("Extracted") /\ mpc' = "classify"
    /\ UNCHANGED <<schedVars, discovery, discovered, msg_ids, content, idx, path, body,
                   validation, data, spy, sinkCall, sheets, sinkLog>>

\* extract_llm, step 1: validate_resume and the two early returns
\* (faulty variant: a low-confidence answer is asked for once more)
Classify_AsksAgain ==
    /\ wpc = "in_func" /\ mpc = "classify"
    /\ \E llmOut \in ValidationResults \cup {LlmError} :
          /\ validation' = ValidateResume(llmOut)
          /\ spy' = [spy EXCEPT !.classify = @ + 1, !.classifyRaised = (llmOut = LlmError)]
          /\ IF PassesValidation(validation')
             THEN SetState("Classified") /\ mpc' = "structure" /\ data' = data
             ELSE IF validation'.confidence = "low" /\ spy.classify = 0
             THEN SetState("Extracted") /\ mpc' = "classify" /\ data' = data
             ELSE SetState("Rejected") /\ mpc' = "sink_reject" /\ data' = None
    /\ UNCHANGED <<schedVars, discovery, discovered, msg_ids, content, idx, path, body,
                   pdf_txt, sinkCall, sheets, sinkLog>>
Classify ==
    /\ wpc = "in_func" /\ mpc = "classify"
    /\ \E llmOut \in ValidationResults \cup {LlmError} :
          /\ validation' = ValidateResume(llmOut)
          /\ spy' = [spy EXCEPT !.classify = @ + 1, !.classifyRaised = (llmOut = LlmError)]
          /\ IF PassesValidation(validation')
             THEN SetState("Classified") /\ mpc' = "structure" /\ data' = data
             ELSE SetState("Rejected") /\ mpc' = "sink_reject" /\ data' = None
    /\ UNCHANGED <<schedVars, discovery, discovered, msg_ids, content, idx, path, body,
                   pdf_txt, sinkCall, sheets, sinkLog>>

\* extract_llm, step 2: the Interns chain
Structure ==
    /\ wpc = "in_func" /\ mpc = "structure"
    /\ \E llmOut \in Interns(email_data.id, PipelineSkills) \cup {LlmError} :
          /\ data' = StructureResult(llmOut)
          /\ spy' = [spy EXCEPT !.extract = @ + 1, !.extractRaised = (llmOut = LlmError)]
          /\ IF data' = LlmError
             THEN Fail("structure", MessageBoundary("Raised")) /\ mpc' = "loop"
             ELSE IF data' = None THEN SetState("Rejected") /\ mpc' = "sink_reject"
             ELSE SetState("Structured") /\ mpc' = "sink_accept"
    /\ UNCHANGED <<schedVars, discovery, discovered, msg_ids, content, idx, path, body,
                   pdf_txt, validation, sinkCall, sheets, sinkLog>>

\* the message's outcome once a sink call has returned or raised
Sunk(sink, r) ==
    /\ sheets' = r.sheets
    /\ track' = [track EXCEPT ![idx] =
          [state |-> MessageBoundary(IF r.raised THEN "Raised" ELSE "Done"),
           acc |-> DataCount(r.sheets[AcceptedStore]) - DataCount(sheets[AcceptedStore]),
           rej |-> DataCount(r.sheets[RejectedStore]) - DataCount(sheets[RejectedStore])]]
    /\ sinkCall' = [fn |-> sink, raised |-> r.raised,
                    touched |-> {n \in StoreNames : r.sheets[n] # sheets[n]}]
    /\ fault' = IF r.raised THEN "sink" ELSE "none"
    /\ mpc' = IF track'[idx].state = "Raised" THEN "raise" ELSE "loop"

\* `if not data:` save_rejected_to_sheets(...); continue
SinkReject ==
    /\ wpc = "in_func" /\ mpc = "sink_reject"
    /\ \E fail \in StoreFaults :
          Sunk("save_rejected_to_sheets", SaveRejectedToSheets(sheets, Timestamp, email_data.sender,
                 RejectDocType, RejectReason, RejectedStore, fail))
    /\ UNCHANGED <<schedVars, discovery, discovered, msg_ids, content, idx, path, body,
                   pdf_txt, validation, data, spy, sinkLog>>

\* save_to_sheets(data.model_dump(), "candidates"); a raise is logged, re-raised
\* and caught by the per-message handler
SinkAccept ==
    /\ wpc = "in_func" /\ mpc = "sink_accept"
    /\ \E fail \in StoreFaults :
          Sunk("save_to_sheets", SaveToSheets(sheets, ModelDump(data), AcceptedStore, fail))
    /\ UNCHANGED <<schedVars, discovery, discovered, msg_ids, content, idx, path, body,
                   pdf_txt, validation, data, spy, sinkLog>>

\* main() returns to the wrapper; its locals are gone
MainReturn ==
    /\ wpc = "in_func" /\ mpc = "return"
    /\ OnReturn
    /\ mpc' = "idle"
    /\ msg_ids' = <<>> /\ content' = <<>> /\ idx' = 0 /\ track' = <<>>
    /\ path' = None /\ body' = None /\ pdf_txt' = None
    /\ validation' = None /\ data' = None /\ spy' = NoSpy /\ fault' = "none"
    /\ sinkCall' = None
    /\ UNCHANGED <<discovery, discovered, sheets, sinkLog>>

Next ==
    \/ StartCycle(MaxCycles)
    \/ CallMain
    \/ Search
    \/ Read
    \/ LoopNext
    \/ Download
    \/ ExtractText
    \/ Classify
    \/ Structure
    \/ SinkReject
    \/ SinkAccept
    \/ MainReturn
    \/ EndCycle

Spec == Init /\ [][Next]_vars

\* The program is one thread and every step of it is a call that returns or
\* raises: whenever a step is possible, one is eventually taken.
FairNext ==
    \/ StartCycle(FairCycles)
    \/ CallMain
    \/ Search
    \/ Read
    \/ LoopNext
    \/ Download
    \/ ExtractText
    \/ Classify
    \/ Structure
    \/ SinkReject
    \/ SinkAccept
    \/ MainReturn
    \/ EndCycle

FairSpec == Init /\ [][FairNext]_vars /\ WF_vars(FairNext)
\* ------------------------------------------------------ operator interrupt
\* The states of the Google Sheets account a KeyboardInterrupt can leave behind
\* when it is raised inside the sink call main is about to make: the store
\* calls made before the interrupted one have taken effect, the later ones
\* have not.
InterruptedSink ==
    LET outcomes ==
          IF mpc = "sink_accept"
          THEN {SaveToSheets(sheets, ModelDump(data), AcceptedStore, at) : at \in StoreFaults}
          ELSE {SaveRejectedToSheets(sheets, Timestamp, email_data.sender, RejectDocType,
                                     RejectReason, RejectedStore, at) : at \in StoreFaults}
    IN  {r.sheets : r \in {o \in outcomes : o.raised}} \cup {sheets}

\* Ctrl-C: KeyboardInterrupt is raised at the point the process has reached.
\* It is a BaseException, so neither main's per-message `except Exception` nor
\* the wrapper's handler catches it; `except KeyboardInterrupt` of __main__
\* logs the stop and the process ends where it was.
Interrupt ==
    /\ wpc # "raised"
    /\ IF wpc = "in_func"
       THEN OnRaise("KeyboardInterrupt")
       ELSE /\ wpc' = "raised"
            /\ UNCHANGED <<cycle, attempt, success, results, waits, log, clock>>
    /\ IF wpc = "in_func" /\ mpc \in {"sink_accept", "sink_reject"}
       THEN sheets' \in InterruptedSink
       ELSE UNCHANGED sheets
    /\ UNCHANGED <<mainVars, sinkLog>>

IntNext ==
    \/ Next
    \/ Interrupt

IntSpec == Init /\ [][IntNext]_vars
\* ------------------------------------------------- the sinks, called directly
SinkCall(fn, file_name, row, r) ==
    /\ sheets' = r.sheets
    /\ sinkLog' = Append(sinkLog, [fn |-> fn, file_name |-> file_name, row |-> row,
                                   raised |-> r.raised])
    /\ UNCHANGED <<schedVars, mainVars>>

CallTag == ToString(Len(sinkLog) + 1)

RecordCandidate ==
    /\ Len(sinkLog) < MaxCalls
    /\ \E d \in Interns("c" \o CallTag, SkillLists), fail \in StoreFaults :
          SinkCall("save_to_sheets", DefaultCandidateStore, CandidateRow(d),
                   SaveToSheets(sheets, d, DefaultCandidateStore, fail))

RecordRejection ==
    /\ Len(sinkLog) < MaxCalls
    /\ \E fail \in StoreFaults :
          LET sender == SenderOf("s" \o CallTag) IN
          SinkCall("save_rejected_to_sheets", RejectedStore,
                   RejectedRow(Timestamp, sender, RejectDocType, RejectReason),
                   SaveRejectedToSheets(sheets, Timestamp, sender, RejectDocType,
                                        RejectReason, RejectedStore, fail))

SinkNext ==
    \/ RecordCandidate
    \/ RecordRejection

SinkSpec == Init /\ [][SinkNext]_vars
\* ------------------------------------- save_to_sheets, one call, any skills
\* One call of save_to_sheets on the untouched account with a record whose
\* skills list is any list of JoinLists; the call is logged with the skills it
\* was given and the row it built.
RecordSkills ==
    /\ sinkLog = <<>>
    /\ \E d \in Interns("c1", JoinLists), fail \in StoreFaults :
          LET r == SaveToSheets(sheets, d, DefaultCandidateStore, fail) IN
          /\ sheets' = r.sheets
          /\ sinkLog' = <<[fn |-> "save_to_sheets", file_name |-> DefaultCandidateStore,
                           skills |-> d.skills, row |-> CandidateRow(d),
                           raised |-> r.raised]>>
    /\ UNCHANGED <<schedVars, mainVars>>

RowNext == RecordSkills

RowSpec == Init /\ [][RowNext]_vars
\* ================================================================ claims
CurTerminal == idx > 0 /\ idx <= Len(track) /\ track[idx].state \in Terminal
SafeReject == [is_resume |-> FALSE, confidence |-> "low", document_type |-> "unknown"]

\* The current message was handled as a rejection: the only sink called is
\* save_rejected_to_sheets, the accepted store is untouched, and the rejected
\* store gained one data row if the call returned and none if it raised.
HandledAsRejection ==
    /\ sinkCall # None
    /\ sinkCall.fn = "save_rejected_to_sheets"
    /\ AcceptedStore \notin sinkCall.touched
    /\ track[idx].acc = 0
    /\ track[idx].rej = (IF sinkCall.raised THEN 0 ELSE 1)
    /\ track[idx].state = (IF sinkCall.raised THEN "Failed" ELSE "Done")

\* C1: the Interns chain is invoked for a document only after one classifier
\* call whose result has is_resume = TRUE and confidence other than low; for a
\* document classified is_resume = FALSE it is never invoked.
C1_ExtractorGated ==
    (spy.extract > 0 \/ mpc = "structure") =>
        /\ spy.classify = 1
        /\ validation # None
        /\ validation.is_resume
        /\ validation.confidence # "low"

C1_Witness ==
    /\ spy.extract = 1
    /\ validation # None /\ validation.is_resume /\ validation.confidence = "medium"

\* C2 as claimed: a message classified is_resume = TRUE with confidence = low
\* ends with exactly one row in the rejected store and none in the accepted one.
C2_Original ==
    (CurTerminal /\ validation # None /\ validation.is_resume
        /\ validation.confidence = "low") =>
        (track[idx].rej = 1 /\ track[idx].acc = 0)

\* C2 amended: such a message never reaches the Interns chain and is handled
\* as a rejection; the one rejected row is there when the rejected-store write
\* returned, and no row at all when it raised.
C2_LowConfidenceRejected ==
    (CurTerminal /\ validation # None /\ validation.is_resume
        /\ validation.confidence = "low") =>
        (spy.extract = 0 /\ HandledAsRejection)

C2_Witness ==
    /\ CurTerminal /\ validation # None /\ validation.is_resume
    /\ validation.confidence = "low"
    /\ track[idx].state = "Done" /\ track[idx].rej = 1

\* C3 as claimed: an exception raised by any stage of m, the classifier and
\* the Interns chain included, moves m to Failed.
StageRaised == fault # "none" \/ spy.classifyRaised \/ spy.extractRaised

C3_Original == (CurTerminal /\ StageRaised) => track[idx].state = "Failed"

\* C3 amended: a failure that leaves a stage of message m (download, text
\* extraction, sink write) ends m alone: main never raises, m is Failed exactly
\* when one of those stages failed, while a raising classifier or Interns call
\* fails no message by itself; a Failed message has no data row and a Done one
\* exactly one, every message before the current one is finished and every
\* later one untouched, and at the end of the pass every message of the batch
\* is Done or Failed.
C3_BatchIsolation ==
    /\ mpc # "raise"
    /\ \A i \in 1..Len(track) :
          /\ track[i].state # "Raised"
          /\ i < idx => track[i].state \in Terminal
          /\ i > idx => track[i] = NewTrack
          /\ track[i].state = "Done" => track[i].acc + track[i].rej = 1
          /\ track[i].state = "Failed" => track[i].acc + track[i].rej = 0
    /\ CurTerminal => (fault = "none" <=> track[idx].state = "Done")
    /\ fault \in {"none", "no_attachment", "download", "extract", "sink"}
    /\ mpc = "return" =>
          /\ idx = Len(content)
          /\ Len(track) = Len(content)
          /\ \A i \in 1..Len(track) : track[i].state \in Terminal

C3_Witness ==
    /\ mpc = "return" /\ Len(content) = 3
    /\ track[1].state = "Done" /\ track[2].state = "Failed" /\ track[3].state = "Done"
    /\ track[1].acc + track[1].rej = 1
    /\ track[3].acc + track[3].rej = 1

\* C4: a cycle makes at most 3 attempts and stops at the first that does not
\* raise; a 10 s wait follows a failed attempt only when another attempt
\* follows, so both raise-raise-ok and raise-raise-raise take exactly two
\* waits, the first ending successful and the second not.
RetryWaits == SelectSeq(waits, LAMBDA w : w = RetryDelay)

C4_RetryPolicy ==
    /\ Len(results) <= MaxAttempts
    /\ attempt <= MaxAttempts
    /\ \A i \in 1..Len(results) : i < Len(results) => results[i] = "raise"
    /\ wpc \in {"call", "in_func"} =>
          /\ attempt = Len(results) + 1
          /\ waits = [i \in 1..Len(results) |-> RetryDelay]
    /\ wpc = "cycle_end" =>
          /\ Len(results) >= 1
          /\ success <=> results[Len(results)] = "ok"
          /\ ~success => Len(results) = MaxAttempts
          /\ waits = [i \in 1..(Len(results) - 1) |-> RetryDelay]
          /\ results = <<"raise", "raise", "ok">> => Len(RetryWaits) = 2 /\ success
          /\ results = <<"raise", "raise", "raise">> => Len(RetryWaits) = 2 /\ ~success

C4_Witness ==
    /\ wpc = "cycle_end" /\ success
    /\ results = <<"raise", "raise", "ok">>
    /\ waits = <<RetryDelay, RetryDelay>>

\* C5: the wrapper never leaves its loop: whatever func does, no exception
\* escapes it; every finished cycle, successful or exhausted, ends with exactly
\* one 3600 s sleep, taken after the attempts; an exhausted cycle is logged.
C5_NeverReturns ==
    /\ wpc \in {"loop", "call", "in_func", "cycle_end"}
    /\ wpc # "loop" => CycleSleep \notin {waits[i] : i \in 1..Len(waits)}
    /\ (wpc = "loop" /\ cycle > 0) =>
          /\ Len(waits) >= 1
          /\ waits[Len(waits)] = CycleSleep
          /\ Len(SelectSeq(waits, LAMBDA w : w = CycleSleep)) = 1
          /\ ~success <=> "All 3 attempts failed" \in log
          /\ ~success <=> results = <<"raise", "raise", "raise">>

C5_Witness ==
    /\ wpc = "loop" /\ cycle > 0 /\ ~success
    /\ waits = <<RetryDelay, RetryDelay, CycleSleep>>

\* C6: a pass whose search call failed is reported to the wrapper as a failed
\* attempt.
C6_DiscoveryFailureReported ==
    (discovery = "failed" /\ mpc = "idle") => results[Len(results)] = "raise"

\* C7: on a store that was absent, once a sink call has returned, the store
\* holds the header once, first, followed by the rows of the calls that
\* returned, in call order (two returned calls: header, row 1, row 2).
CallsOn(name) == SelectSeq(sinkLog, LAMBDA c : c.file_name = name)
ReturnedRows(calls) ==
    [i \in 1..Len(SelectSeq(calls, LAMBDA c : ~c.raised)) |->
        SelectSeq(calls, LAMBDA c : ~c.raised)[i].row]
HeaderOf(name) == IF name = RejectedStore THEN RejectedHeader ELSE CandidateHeader

C7_SinkCreationIdempotent ==
    \A name \in StoreNames :
        (CallsOn(name) # <<>> /\ ~CallsOn(name)[1].raised) =>
            sheets[name].rows = <<HeaderOf(name)>> \o ReturnedRows(CallsOn(name))

C7_Witness ==
    /\ Len(CallsOn(DefaultCandidateStore)) = 2
    /\ \A i \in 1..2 : ~CallsOn(DefaultCandidateStore)[i].raised
    /\ Len(sheets[DefaultCandidateStore].rows) = 3

\* C8 as claimed: a message whose classifier call raised ends with exactly one
\* row in the rejected store and none in the accepted one.
C8_Original ==
    (CurTerminal /\ spy.classifyRaised) => (track[idx].rej = 1 /\ track[idx].acc = 0)

\* C8 amended: a raising classifier call yields is_resume = FALSE, confidence
\* = low and never leaves validate_resume; the message skips the Interns chain
\* and is handled as a rejection, with its one rejected row when the
\* rejected-store write returned and no row when it raised.
C8_ClassifierFailureRejects ==
    /\ spy.classifyRaised => (validation = SafeReject /\ fault # "classify" /\ mpc # "raise")
    /\ (CurTerminal /\ spy.classifyRaised) => (spy.extract = 0 /\ HandledAsRejection)

C8_Witness ==
    /\ CurTerminal /\ spy.classifyRaised
    /\ track[idx].state = "Done" /\ track[idx].rej = 1
    /\ idx < Len(content)

\* C9 as claimed: a message whose Interns call raised ends with exactly one row
\* in the rejected store and none in the accepted one.
C9_Original ==
    (CurTerminal /\ spy.extractRaised) => (track[idx].rej = 1 /\ track[idx].acc = 0)

\* C9 amended: a raising Interns call yields an absent result and never leaves
\* extract_llm; the message is handled as a rejection, with its one rejected
\* row when the rejected-store write returned and no row when it raised.
C9_ExtractionFailureRejects ==
    /\ spy.extractRaised => (data = None /\ fault # "structure" /\ mpc # "raise")
    /\ (CurTerminal /\ spy.extractRaised) => HandledAsRejection

C9_Witness ==
    /\ CurTerminal /\ spy.extractRaised
    /\ track[idx].state = "Done" /\ track[idx].rej = 1
    /\ idx < Len(content)

\* C10: a sink call whose store write fails raises to main; the current message
\* alone becomes Failed with no data row, and the loop goes on to the next
\* message; a sink call that returns has written its data row.
C10_SinkFailurePropagates ==
    sinkCall # None =>
        /\ mpc \in {"loop", "return"}
        /\ sinkCall.raised =>
              /\ track[idx].state = "Failed" /\ fault = "sink"
              /\ track[idx].acc = 0 /\ track[idx].rej = 0
        /\ ~sinkCall.raised =>
              /\ track[idx].state = "Done"
              /\ track[idx].acc + track[idx].rej = 1
        /\ \A i \in 1..Len(track) : i # idx => track[i].state \in Terminal \cup {"Pending"}

C10_Witness ==
    /\ sinkCall # None /\ sinkCall.raised /\ sinkCall.fn = "save_to_sheets"
    /\ track[idx].state = "Failed"
    /\ idx < Len(content)

\* C11: an operator interrupt never ends the process mid-message: when the
\* process has stopped, every message of the pass is either finished or not
\* yet started, none is left between two stages.
C11_InterruptAtCycleBoundary ==
    wpc = "raised" =>
        \A i \in 1..Len(track) : track[i].state \in Terminal \cup {"Pending"}

\* extract_text_from_pdf has returned for the current message: pdf_txt holds
\* its result
TextReturned ==
    /\ idx > 0 /\ idx <= Len(track)
    /\ \/ track[idx].state \in {"Extracted", "Classified", "Rejected", "Structured", "Done"}
       \/ track[idx].state = "Failed" /\ fault \in {"extract", "sink"}

\* the two strings extract_text_from_pdf returns for a PDF it could not read
ExtractionMarkers ==
    {"Error: PDF file not found at " \o path.file, "Error reading PDF: bad xref"}

\* C12: a message whose text extraction failed (missing or unreadable PDF) is
\* skipped: it is Failed at the extraction stage, neither the classifier nor
\* the Interns chain has been invoked for it, no sink has been called and no
\* data row added for it, and main is back at the loop over the messages.
C12_ExtractionFailureSkips ==
    (TextReturned /\ pdf_txt \in ExtractionMarkers) =>
        /\ track[idx] = [state |-> "Failed", acc |-> 0, rej |-> 0]
        /\ fault = "extract"
        /\ spy = NoSpy /\ validation = None /\ data = None
        /\ sinkCall = None
        /\ mpc \in {"loop", "return"}
        /\ mpc = "return" => idx = Len(content)

C12_Witness ==
    /\ TextReturned /\ pdf_txt = "Error reading PDF: bad xref"
    /\ idx = 1 /\ Len(content) = 2 /\ mpc = "loop"
    /\ \A n \in StoreNames : sheets[n] = AbsentSheet

\* C13: the row written for a message that failed the acceptance policy
\* carries the document type the classifier returned for that document,
\* together with the fixed reason string.
C13_RejectionRowCarriesClassifierType ==
    (/\ sinkCall # None /\ sinkCall.fn = "save_rejected_to_sheets" /\ ~sinkCall.raised
     /\ ~PassesValidation(validation)) =>
        LET rows == sheets[RejectedStore].rows IN
        /\ rows[Len(rows)][3] = validation.document_type
        /\ rows[Len(rows)][4] = RejectReason

\* C14: every data row of the accepted-candidates store has "New" in its
\* Status column, whichever status of the Interns schema the reasoning
\* collaborator returned.
C14_StatusAlwaysNew ==
    \A i \in 1..Len(DataRows(sheets[AcceptedStore])) :
        DataRows(sheets[AcceptedStore])[i][6] = "New"

\* C15 as claimed: a message routed to the accepted store adds exactly one data
\* row there and leaves the rejected store unchanged, and a message routed to
\* the rejected store adds exactly one data row there and leaves the accepted
\* store unchanged.
C15_Original ==
    (CurTerminal /\ sinkCall # None) =>
        /\ sinkCall.fn = "save_to_sheets" =>
              (track[idx].acc = 1 /\ track[idx].rej = 0 /\ RejectedStore \notin sinkCall.touched)
        /\ sinkCall.fn = "save_rejected_to_sheets" =>
              (track[idx].rej = 1 /\ track[idx].acc = 0 /\ AcceptedStore \notin sinkCall.touched)

\* C15 amended: processing one message changes at most one store.  A message
\* for which no sink is called changes none.  A message routed to the accepted
\* store changes nothing but that store and adds exactly one data row to it
\* when the write returns and none when it raises; a message routed to the
\* rejected store changes nothing but that store and adds exactly one data row
\* to it when the write returns and none when it raises.
C15_OneStorePerMessage ==
    /\ (idx > 0 /\ idx <= Len(track) /\ sinkCall = None) =>
          (track[idx].acc = 0 /\ track[idx].rej = 0)
    /\ sinkCall # None =>
          /\ Cardinality(sinkCall.touched) <= 1
          /\ sinkCall.fn = "save_to_sheets" =>
                /\ sinkCall.touched \subseteq {AcceptedStore}
                /\ track[idx].rej = 0
                /\ track[idx].acc = (IF sinkCall.raised THEN 0 ELSE 1)
          /\ sinkCall.fn = "save_rejected_to_sheets" =>
                /\ sinkCall.touched \subseteq {RejectedStore}
                /\ track[idx].acc = 0
                /\ track[idx].rej = (IF sinkCall.raised THEN 0 ELSE 1)

C15_Witness ==
    /\ sinkCall # None /\ sinkCall.fn = "save_rejected_to_sheets" /\ ~sinkCall.raised
    /\ sinkCall.touched = {RejectedStore}
    /\ track[idx].rej = 1 /\ track[idx].acc = 0
    /\ DataCount(sheets[AcceptedStore]) = 1
    /\ DataCount(sheets[RejectedStore]) = 2

\* s is whitespace-normalised: single spaces between words, nothing else
WsNormalized(s) ==
    \A i \in 1..Len(s) :
        /\ SubSeq(s, i, i) # "\n"
        /\ SubSeq(s, i, i) = " " =>
              (i > 1 /\ i < Len(s) /\ SubSeq(s, i + 1, i + 1) # " ")

\* C16: extract_text_from_pdf never raises: no message fails because an
\* exception left it, a message past the extraction stage has its returned
\* text, and what it returns is either one of the two failure markers (missing
\* file, unreadable file) or the whitespace-normalised text of the pages.
C16_ExtractorNeverRaises ==
    /\ fault # "extract_raised"
    /\ mpc \in {"classify", "structure", "sink_reject", "sink_accept"} => TextReturned
    /\ (TextReturned /\ (track[idx].state = "Extracted" \/ fault = "extract")) =>
          (pdf_txt \in ExtractionMarkers \/ WsNormalized(pdf_txt))
    /\ (TextReturned /\ track[idx].state = "Extracted") => pdf_txt \notin ExtractionMarkers

C16_Witness ==
    /\ TextReturned /\ fault = "extract"
    /\ pdf_txt = "Error: PDF file not found at " \o FileName(MsgId(1), 1)
    /\ mpc = "loop"

RECURSIVE CommaJoined(_)
CommaJoined(sk) ==
    IF sk = <<>> THEN ""
    ELSE IF Len(sk) = 1 THEN sk[1]
    ELSE CommaJoined(SubSeq(sk, 1, Len(sk) - 1)) \o ", " \o sk[Len(sk)]

\* C18: the Skills field of the row save_to_sheets builds, and of the row it
\* appends when the call returns, is the skills joined in order by ", ":
\* empty for the empty list, the skill itself for a singleton, and
\* "Python, SQL, Go" for [Python, SQL, Go]; the other fields are untouched.
C18_SkillsCommaJoined ==
    \A i \in 1..Len(sinkLog) :
        LET c == sinkLog[i]
            rows == sheets[c.file_name].rows
        IN  /\ Len(c.row) = Len(CandidateHeader)
            /\ c.row[4] = CommaJoined(c.skills)
            /\ c.skills = <<>> => c.row[4] = ""
            /\ Len(c.skills) = 1 => c.row[4] = c.skills[1]
            /\ c.skills = <<"Python", "SQL", "Go">> => c.row[4] = "Python, SQL, Go"
            /\ ~c.raised => (rows = <<CandidateHeader, c.row>>)

C18_Witness ==
    /\ Len(sinkLog) = 1 /\ ~sinkLog[1].raised
    /\ sinkLog[1].skills = <<"Python", "SQL", "Go">>
    /\ sheets[DefaultCandidateStore].rows[2][4] = "Python, SQL, Go"

\* position of message id in the list the search returned
PosIn(ids, id) == CHOOSE i \in 1..Len(ids) : ids[i] = id

\* messages of the pass that main has begun and not finished
InProgress == {i \in 1..Len(track) : track[i].state \notin Terminal \cup {"Pending"}}

StagePositions ==
    {"download", "extract", "classify", "structure", "sink_reject", "sink_accept"}

\* C19: the messages of a pass are processed one at a time in the order the
\* search returned them: the batch keeps the discovery order, at most one
\* message is begun and unfinished and it is the current one, every message
\* before it is Done or Failed, every message after it is untouched (no stage
\* run, no row written), and the loop takes the next message only when the
\* current one is finished.
C19_OneAtATimeInOrder ==
    /\ Len(track) = Len(content)
    /\ idx <= Len(content)
    /\ \A j, k \in 1..Len(content) :
          j < k => PosIn(msg_ids, content[j].id) < PosIn(msg_ids, content[k].id)
    /\ Cardinality(InProgress) <= 1
    /\ InProgress \subseteq {idx}
    /\ \A i \in 1..Len(track) :
          /\ i < idx => track[i].state \in Terminal
          /\ i > idx => track[i] = NewTrack
    /\ mpc \in StagePositions => InProgress = {idx}
    /\ mpc \in {"loop", "return"} => InProgress = {}
    /\ (spy # NoSpy \/ sinkCall # None \/ path # None) => idx \in 1..Len(content)

C19_Witness ==
    /\ Len(content) = 3 /\ idx = 2 /\ mpc = "sink_accept"
    /\ \A i \in 1..3 : content[i].id = MsgId(i)
    /\ track[1].state = "Done" /\ track[1].rej = 1
    /\ track[2].state = "Structured"
    /\ track[3] = NewTrack

\* C20: for one message the classifier is invoked at most once and the Interns
\* chain at most once, the chain never without a classification; the branch
\* the message takes follows from that one classification result: on the
\* accepting branch the result passed the acceptance policy, and a message on
\* the rejecting branch either failed the policy, with the Interns chain not
\* invoked, or passed it and got no record from the one Interns call.
C20_SingleClassification ==
    /\ spy.classify <= 1
    /\ spy.extract <= 1
    /\ spy.extract <= spy.classify
    /\ spy.classify = 0 <=> validation = None
    /\ mpc = "classify" => spy.classify = 0
    /\ mpc \in {"structure", "sink_accept"} =>
          /\ spy.classify = 1
          /\ PassesValidation(validation)
          /\ spy.extract = (IF mpc = "structure" THEN 0 ELSE 1)
    /\ mpc = "sink_accept" => (data # None /\ data # LlmError)
    /\ mpc = "sink_reject" =>
          /\ spy.classify = 1
          /\ data = None
          /\ spy.extract = (IF PassesValidation(validation) THEN 1 ELSE 0)
    /\ sinkCall # None =>
          /\ spy.classify = 1
          /\ sinkCall.fn = "save_to_sheets" =>
                (PassesValidation(validation) /\ spy.extract = 1 /\ data # None)
          /\ sinkCall.fn = "save_rejected_to_sheets" =>
                /\ data = None
                /\ spy.extract = (IF PassesValidation(validation) THEN 1 ELSE 0)

C20_Witness ==
    /\ sinkCall # None /\ sinkCall.fn = "save_to_sheets" /\ ~sinkCall.raised
    /\ spy.classify = 1 /\ spy.extract = 1
    /\ validation.confidence = "medium"
    /\ idx = 2

\* the read of at least one discovered message failed in this pass
ReadFailed == mpc \notin {"search", "read"} /\ Len(content) < Len(msg_ids)

\* C21: a pass in which the read of a discovered message failed is aborted:
\* main does not go on to process a message of that pass and does not return
\* normally to the wrapper.
C21_ReadFailureAbortsPass ==
    ReadFailed => (idx = 0 /\ mpc # "return")

IsPrefix(p, q) == Len(p) <= Len(q) /\ SubSeq(q, 1, Len(p)) = p

\* C22: both stores, and every other sheet of the account, are append-only
\* over every step of every pass and cycle: a store that exists keeps
\* existing, and its rows before the step are a prefix of its rows after it,
\* so no row is removed, reordered or modified and no count decreases.
C22_StoresAppendOnly ==
    [][\A n \in StoreNames :
          /\ sheets[n].exists => sheets'[n].exists
          /\ IsPrefix(sheets[n].rows, sheets'[n].rows)
          /\ DataCount(sheets[n]) <= DataCount(sheets'[n])]_vars

C22_Witness ==
    /\ cycle = 2 /\ mpc = "loop"
    /\ sinkCall # None /\ ~sinkCall.raised
    /\ Len(sheets[AcceptedStore].rows) = 3
    /\ Len(sheets[RejectedStore].rows) = 2

\* C23: whatever store calls failed in the sink calls made so far, a store
\* that exists and has a row has its header as first row and holds the header
\* exactly once.
C23_HeaderFirstAndOnce ==
    \A n \in StoreNames :
        (sheets[n].exists /\ sheets[n].rows # <<>>) =>
            /\ sheets[n].rows[1] = HeaderOf(n)
            /\ Len(SelectSeq(sheets[n].rows, LAMBDA r : r = HeaderOf(n))) = 1

\* C24: a message whose attachment text was extracted successfully, that is,
\* whose text is none of the failure markers, is never failed at the
\* extraction stage: it goes on to classification.
C24_OnlyRealFailuresSkipped ==
    (TextReturned /\ pdf_txt \notin ExtractionMarkers) =>
        (fault # "extract" /\ (CurTerminal => spy.classify = 1))

\* C25: a failure of a message never leaves main, so it never costs the cycle
\* an attempt: every cycle calls main once, takes no retry delay and ends
\* successful however many messages failed; each message of the pass is
\* therefore processed once and adds at most one data row over both stores.
C25_FailuresNeverRetried ==
    /\ mpc # "raise"
    /\ attempt <= 1
    /\ Len(results) <= 1
    /\ RetryWaits = <<>>
    /\ wpc = "cycle_end" => (success /\ results = <<"ok">>)
    /\ (wpc = "loop" /\ cycle > 0) => (success /\ "All 3 attempts failed" \notin log)
    /\ \A i \in 1..Len(track) :
          /\ track[i].acc + track[i].rej <= 1
          /\ track[i].state = "Failed" => track[i].acc + track[i].rej = 0

C25_Witness ==
    /\ wpc = "cycle_end" /\ cycle = 1 /\ success /\ results = <<"ok">>
    /\ discovered = 3
    /\ sheets[RejectedStore].exists /\ sheets[AcceptedStore].exists
    /\ \A n \in StoreNames : DataCount(sheets[n]) = 0

\* C26: when every external call ends, a message main has begun is eventually
\* Done or Failed, every call of main eventually comes to its return with every
\* message of the batch Done or Failed, and every cycle that has started
\* eventually has main returned and its 3600 s sleep taken.
C26_EveryCycleSleeps ==
    /\ (InProgress # {}) ~> (InProgress = {} /\ CurTerminal)
    /\ (mpc = "search") ~>
          (mpc = "return" /\ \A i \in 1..Len(track) : track[i].state \in Terminal)
    /\ (wpc = "call") ~>
          (wpc = "loop" /\ mpc = "idle" /\ waits # <<>> /\ waits[Len(waits)] = CycleSleep)

C26_Witness ==
    /\ wpc = "loop" /\ cycle = 1 /\ waits = <<CycleSleep>>
    /\ discovered = 3
    /\ DataCount(sheets[AcceptedStore]) = 1
    /\ DataCount(sheets[RejectedStore]) = 1

\* C27: the pipeline writes accepted rows to the sheet the banner names for
\* valid resumes and rejection rows to the sheet it names for rejected
\* documents, and creates or changes no sheet of another name.
C27_StoresAsAnnounced ==
    /\ \A n \in StoreNames :
          sheets[n] # AbsentSheet => n \in {BannerAcceptedStore, BannerRejectedStore}
    /\ sinkCall # None =>
          sinkCall.touched \subseteq
              {IF sinkCall.fn = "save_to_sheets" THEN BannerAcceptedStore
               ELSE BannerRejectedStore}
====
